---- MODULE Spec2Model ----
(***************************************************************************)
(* Evidence-of-Pubmed: the PubMed access layer (services/pubmedService.ts)  *)
(* and the App component's handlers (handleSearch, handleDeepReview,        *)
(* toggles) as state machines.                                              *)
(*                                                                          *)
(*   SpecRetry : one call of fetchWithRetry, one step per fetch / sleep.    *)
(*   SpecAcc   : the accessors fetchSummary, fetchAbstracts, fetchFullText  *)
(*               applied to provider responses.                             *)
(*   SpecSearch, SpecReview, SpecSelect : the App component; every await    *)
(*               is an action boundary. SpecReviewFair and SpecSearchFair   *)
(*               add that every call of a deep review, of a search,         *)
(*               settles.                                                   *)
(***************************************************************************)
EXTENDS Integers, Sequences, FiniteSets, TLC

VARIABLES
    fw,                  \* the running fetchWithRetry call (SpecRetry)
    unit,                \* the last accessor call and its result (SpecAcc)
    \* App state (useState)
    meshTerms,           \* string[]
    selectedTerms,       \* Set<string>
    analyzeStatus,       \* ProcessStatus
    articles,            \* PubMedArticle[]
    searchStatus,        \* ProcessStatus
    selectedArticleIds,  \* Set<string>, in insertion order
    translatingTitles,   \* boolean
    reviewStatus,        \* ProcessStatus
    statusMessage,       \* string
    reportOutput,        \* string
    \* handler invocations suspended at an await
    searches,            \* handleSearch invocations in flight, oldest first
    reviews              \* handleDeepReview invocations, oldest first

appVars ==
    <<meshTerms, selectedTerms, analyzeStatus, articles, searchStatus,
      selectedArticleIds, translatingTitles, reviewStatus, statusMessage,
      reportOutput, searches, reviews>>

vars == <<fw, unit, appVars>>

\* ProcessStatus, types.ts 25-30
IDLE == "idle"
LOADING == "loading"
SUCCESS == "success"
ERROR == "error"

\* the state after construction, App lines 23-38
AppStart ==
    /\ meshTerms = <<>>
    /\ selectedTerms = {}
    /\ analyzeStatus = IDLE
    /\ articles = <<>>
    /\ searchStatus = IDLE
    /\ selectedArticleIds = <<>>
    /\ translatingTitles = FALSE
    /\ reviewStatus = IDLE
    /\ statusMessage = ""
    /\ reportOutput = ""
    /\ searches = <<>>
    /\ reviews = <<>>

----------------------------------------------------------------------------
(* Generic helpers *)

Range(s) == {s[i] : i \in 1..Len(s)}

Last(s) == s[Len(s)]

----------------------------------------------------------------------------
(* fetchWithRetry, pubmedService.ts 8-26 *)

\* the default of the `retries` parameter
DefaultRetries == 3

\* guard of the model against an unbounded number of requests
MaxRequests == 6

\* what one fetch() can come to: a response with a status, or a throw
Statuses == {200, 204, 400, 404, 429, 500, 503}

FetchOutcomes ==
    {[kind |-> "response", status |-> s] : s \in Statuses}
        \cup {[kind |-> "throw", status |-> 0]}

\* Response.ok
ResOk(status) == status >= 200 /\ status <= 299

\* line 12: res.status === 429 || res.status >= 500
IsTransientStatus(status) == status = 429 \/ status >= 500

\* line 12: the retry condition of the non-ok branch
RetryOnStatus(retries, status) == retries > 0 /\ IsTransientStatus(status)

CatchRetries_offByOne(retries) == retries >= 0

\* line 20: the retry condition of the catch clause
CatchRetries(retries) == retries > 0

\* line 16 / the error fetch() threw
ErrorOf(o) ==
    IF o.kind = "throw" THEN [kind |-> "network", status |-> 0]
    ELSE [kind |-> "NCBI API failed", status |-> o.status]

NoError == [kind |-> "none", status |-> 0]

\* line 8: the call starts with the default budget and nothing done
FwStart ==
    [pc |-> "fetch", retries |-> DefaultRetries, requests |-> 0,
     sleeps |-> 0, log |-> <<>>, error |-> NoError]

\* lines 10-24: the awaited fetch settles with outcome o. A throw at line 16
\* happens inside the try block, so the catch clause at line 19 receives it.
FwFetchSettles(o) ==
    /\ fw.pc = "fetch"
    /\ fw.requests < MaxRequests
    /\ LET f == [fw EXCEPT !.requests = @ + 1, !.log = Append(@, o)]
       IN  fw' =
            IF o.kind = "response" /\ ResOk(o.status)
              THEN [f EXCEPT !.pc = "returned"]
            ELSE IF o.kind = "response" /\ RetryOnStatus(fw.retries, o.status)
              THEN [f EXCEPT !.pc = "sleepTry"]
            ELSE IF CatchRetries(fw.retries)
              THEN [f EXCEPT !.pc = "sleepCatch"]
            ELSE [f EXCEPT !.pc = "rejected", !.error = ErrorOf(o)]
    /\ UNCHANGED <<unit, appVars>>

\* lines 13-14 and 21-22: the sleep ends and the call recurses with one retry
\* less; the recursive promise is returned without await, so its rejection is
\* the caller's rejection and is not caught again by this frame.
FwSleepEnds ==
    /\ fw.pc \in {"sleepTry", "sleepCatch"}
    /\ fw' = [fw EXCEPT !.pc = "fetch", !.retries = @ - 1,
                        !.sleeps = @ + 1,
                        !.log = Append(@, [kind |-> "sleep", status |-> 0])]
    /\ UNCHANGED <<unit, appVars>>

FwNext ==
    \/ \E o \in FetchOutcomes : FwFetchSettles(o)
    \/ FwSleepEnds

UnitIdle == [fn |-> "none"]

InitRetry ==
    /\ fw = FwStart
    /\ unit = UnitIdle
    /\ AppStart

SpecRetry == InitRetry /\ [][FwNext]_vars

----------------------------------------------------------------------------
(* Values the accessors handle.                                             *)
(* A string is a sequence of tokens: whitespace tokens and non-empty        *)
(* whitespace-free chunks; the empty string is <<>>.                        *)
(* A parsed JSON value carries its type in field t.                         *)

WS == {" ", "\n"}

JUndef == [t |-> "undefined"]
JNull == [t |-> "null"]
JStr(s) == [t |-> "string", v |-> s]
JArr(a) == [t |-> "array", v |-> a]
JObj(f) == [t |-> "object", v |-> f]

Nullish(j) == j.t \in {"undefined", "null"}

\* o?.k, and o.k on a value that is not nullish
OptGet(o, k) ==
    IF o.t = "object" /\ k \in DOMAIN o.v THEN o.v[k] ELSE JUndef

\* o?.[i], and o[i] on a value that is not nullish (i counts from 0)
OptIdx(o, i) ==
    IF o.t = "array" /\ i < Len(o.v) THEN o.v[i + 1] ELSE JUndef

\* JavaScript truthiness of a parsed JSON value
Truthy(j) ==
    CASE Nullish(j) -> FALSE
      [] j.t = "string" -> Len(j.v) > 0
      [] OTHER -> TRUE

\* what an accessor call comes to; requests counts its fetchWithRetry calls
Ret(v, n) == [kind |-> "return", value |-> v, requests |-> n]
Thr(e, n) == [kind |-> "throw", error |-> e, requests |-> n]

RECURSIVE ConcatAll(_)
ConcatAll(ss) == IF Len(ss) = 0 THEN <<>> ELSE Head(ss) \o ConcatAll(Tail(ss))

\* Array.prototype.join(sep) over strings
RECURSIVE Join(_, _)
Join(ss, sep) ==
    IF Len(ss) = 0 THEN <<>>
    ELSE IF Len(ss) = 1 THEN ss[1]
    ELSE ss[1] \o sep \o Join(Tail(ss), sep)

\* String.prototype.trim()
RECURSIVE TrimStart(_)
TrimStart(s) ==
    IF Len(s) > 0 /\ Head(s) \in WS THEN TrimStart(Tail(s)) ELSE s

RECURSIVE TrimEnd(_)
TrimEnd(s) ==
    IF Len(s) > 0 /\ s[Len(s)] \in WS THEN TrimEnd(SubSeq(s, 1, Len(s) - 1))
    ELSE s

Trim(s) == TrimEnd(TrimStart(s))

----------------------------------------------------------------------------
(* fetchSummary, pubmedService.ts 43-60 *)

\* a network response as an accessor sees it after fetchWithRetry and the
\* body parse: the call rejected, the body did not parse, or parsed data
Rejected == [kind |-> "reject"]
BadJson == [kind |-> "badjson"]
Json(d) == [kind |-> "json", data |-> d]

UnknownAuthors == <<"Unknown Authors">>

\* element of join(): undefined and null become the empty string
JoinItem(j) ==
    CASE Nullish(j) -> <<>>
      [] j.t = "string" -> j.v
      [] OTHER -> <<"[object Object]">>

\* line 55: d.authors?.map(a => a.name).join(", ") || "Unknown Authors"
AuthorsOf(d) ==
    LET a == OptGet(d, "authors") IN
    IF Nullish(a) THEN Ret(UnknownAuthors, 0)
    ELSE IF a.t # "array" THEN Thr("TypeError", 0)
    ELSE IF \E i \in 1..Len(a.v) : Nullish(a.v[i]) THEN Thr("TypeError", 0)
    ELSE LET names == [i \in 1..Len(a.v) |-> JoinItem(OptGet(a.v[i], "name"))]
             joined == Join(names, <<", ">>)
         IN  Ret(IF Len(joined) = 0 THEN UnknownAuthors ELSE joined, 0)

\* a record whose title is read on the first call of the accessor only
SummaryRecord_firstCallOnly(id, d) ==
    IF Nullish(d) THEN Thr("TypeError", 0)
    ELSE LET au == AuthorsOf(d) IN
         IF au.kind = "throw" THEN au
         ELSE Ret([id |-> id, pmid |-> id,
                   title |-> IF unit.fn = "none" THEN OptGet(d, "title")
                             ELSE JUndef,
                   authors |-> au.value,
                   journal |-> OptGet(d, "source"),
                   pubdate |-> OptGet(d, "pubdate")], 0)

\* lines 50-58: the record of one identifier; reading a field of an
\* undefined or null d throws
SummaryRecord(id, d) ==
    IF Nullish(d) THEN Thr("TypeError", 0)
    ELSE LET au == AuthorsOf(d) IN
         IF au.kind = "throw" THEN au
         ELSE Ret([id |-> id, pmid |-> id,
                   title |-> OptGet(d, "title"),
                   authors |-> au.value,
                   journal |-> OptGet(d, "source"),
                   pubdate |-> OptGet(d, "pubdate")], 0)

\* lines 43-60
fetchSummary(ids, resp) ==
    IF Len(ids) = 0 THEN Ret(<<>>, 0)
    ELSE IF resp.kind = "reject" THEN Thr("TransportError", 1)
    ELSE IF resp.kind = "badjson" THEN Thr("SyntaxError", 1)
    ELSE IF Nullish(resp.data) THEN Thr("TypeError", 1)
    ELSE LET result == OptGet(resp.data, "result")
             recs == [i \in 1..Len(ids) |->
                        IF Nullish(result) THEN Thr("TypeError", 0)
                        ELSE SummaryRecord(ids[i], OptGet(result, ids[i]))]
         IN  IF \E i \in 1..Len(ids) : recs[i].kind = "throw"
               THEN Thr("TypeError", 1)
             ELSE Ret([i \in 1..Len(ids) |-> recs[i].value], 1)

----------------------------------------------------------------------------
(* fetchAbstracts, pubmedService.ts 62-80 *)

\* the parsed efetch document: the PubmedArticle nodes in document order;
\* a node has the text of its first PMID element ("" when it has none) and
\* its AbstractText elements, each with a Label attribute or none
Xml(nodes) == [kind |-> "xml", nodes |-> nodes]

NoLabel == [has |-> FALSE, v |-> <<>>]
Label(s) == [has |-> TRUE, v |-> s]

NoAbstract == <<"No abstract available.">>

\* line 75: (label ? `[${label}] ` : "") + t.textContent + " "
SegmentText(seg) ==
    (IF seg.label.has /\ Len(seg.label.v) > 0
       THEN <<"[">> \o seg.label.v \o <<"]", " ">>
       ELSE <<>>)
    \o seg.text \o <<" ">>

\* the abstract of a node without the fallback of line 77
AbstractOf_noSentinel(node) ==
    Trim(ConcatAll([i \in 1..Len(node.segs) |-> SegmentText(node.segs[i])]))

\* lines 72-77: abstract.trim() || "No abstract available."
AbstractOf(node) ==
    LET abstract ==
            ConcatAll([i \in 1..Len(node.segs) |-> SegmentText(node.segs[i])])
        trimmed == Trim(abstract)
    IN  IF Len(trimmed) = 0 THEN NoAbstract ELSE trimmed

\* lines 69-78: results[pmid] is assigned node by node, a later node of the
\* same pmid overwriting an earlier one
RECURSIVE AbstractResults(_)
AbstractResults(nodes) ==
    IF Len(nodes) = 0 THEN [k \in {} |-> <<>>]
    ELSE LET n == Len(nodes)
             before == AbstractResults(SubSeq(nodes, 1, n - 1))
         IN  [k \in DOMAIN before \cup {nodes[n].pmid} |->
                IF k = nodes[n].pmid THEN AbstractOf(nodes[n]) ELSE before[k]]

\* lines 62-80; DOMParser.parseFromString does not throw
fetchAbstracts(ids, resp) ==
    IF Len(ids) = 0 THEN Ret([k \in {} |-> <<>>], 0)
    ELSE IF resp.kind = "reject" THEN Thr("TransportError", 1)
    ELSE Ret(AbstractResults(resp.nodes), 1)

----------------------------------------------------------------------------
(* fetchFullText, pubmedService.ts 82-109 *)

\* line 105: substring(0, 10000)
FullTextLimit == 10000

\* The text of a body node is long, so it is kept as runs: a run is n > 0
\* whitespace characters or n > 0 other characters.
Run(ws, n) == [ws |-> ws, n |-> n]

RECURSIVE TextLen(_)
TextLen(runs) ==
    IF Len(runs) = 0 THEN 0 ELSE Head(runs).n + TextLen(Tail(runs))

\* line 105: replace(/\s+/g, ' '): every maximal stretch of whitespace
\* becomes one space
RECURSIVE CollapseWhitespace(_)
CollapseWhitespace(runs) ==
    IF Len(runs) = 0 THEN <<>>
    ELSE LET rest == CollapseWhitespace(Tail(runs)) IN
         IF ~Head(runs).ws THEN <<Head(runs)>> \o rest
         ELSE IF Len(rest) > 0 /\ Head(rest).ws THEN rest
         ELSE <<Run(TRUE, 1)>> \o rest

\* String.prototype.substring(0, limit)
RECURSIVE Substring0(_, _)
Substring0(runs, limit) ==
    IF Len(runs) = 0 \/ limit <= 0 THEN <<>>
    ELSE IF Head(runs).n >= limit THEN <<Run(Head(runs).ws, limit)>>
    ELSE <<Head(runs)>> \o Substring0(Tail(runs), limit - Head(runs).n)

TruncateBody_unbounded(runs) == runs

\* line 105: the body text cut to the limit
TruncateBody(runs) == Substring0(runs, FullTextLimit)

\* the parsed PMC document: whether it has a body element, and that
\* element's textContent
PmcXml(hasBody, text) == [kind |-> "xml", hasBody |-> hasBody, text |-> text]

\* line 90: linkData.linksets?.[0]?.linksetdbs?.[0]?.links?.[0]
FirstPmcLink(linkData) ==
    OptIdx(OptGet(OptIdx(OptGet(OptIdx(OptGet(linkData, "linksets"), 0),
                                "linksetdbs"), 0), "links"), 0)

\* line 105: the returned string, the provenance marker and then the body
FullTextString(pmcid, body) ==
    [t |-> "string",
     marker |-> <<"[FULL TEXT FROM ">> \o pmcid \o <<"]", "\n">>,
     body |-> body]

\* lines 84-105, the body of the try block: a rejected fetchWithRetry, a
\* body that is not JSON and a property read of null throw
FullTextTry(pmid, linkResp, pmcResp) ==
    IF linkResp.kind = "reject" THEN Thr("TransportError", 1)
    ELSE IF linkResp.kind = "badjson" THEN Thr("SyntaxError", 1)
    ELSE IF Nullish(linkResp.data) THEN Thr("TypeError", 1)
    ELSE LET link == FirstPmcLink(linkResp.data) IN
         IF ~Truthy(link) THEN Ret(JNull, 1)
         ELSE LET pmcid == <<"PMC">> \o JoinItem(link) IN
              IF pmcResp.kind = "reject" THEN Thr("TransportError", 2)
              ELSE IF ~pmcResp.hasBody THEN Ret(JNull, 2)
              ELSE Ret(FullTextString(pmcid,
                          TruncateBody(CollapseWhitespace(pmcResp.text))), 2)

FullTextCatch_rethrow(r) == r

\* lines 106-108: catch (e) { return null; }
FullTextCatch(r) == IF r.kind = "throw" THEN Ret(JNull, r.requests) ELSE r

\* lines 82-109
fetchFullText(pmid, linkResp, pmcResp) ==
    FullTextCatch(FullTextTry(pmid, linkResp, pmcResp))

----------------------------------------------------------------------------
(* fetchReferences, pubmedService.ts 111-130 *)

\* line 123: slice(0, 3)
RefsPerLinkSetDb == 3

RefsLinkName == JStr(<<"pubmed_pubmed_refs">>)

\* a linksetdb of that name
RefsDb(links) == JObj([linkname |-> RefsLinkName, links |-> JArr(links)])

\* Set.add over a list, in insertion order
RECURSIVE AddAll(_, _)
AddAll(set, links) ==
    IF Len(links) = 0 THEN set
    ELSE AddAll(IF Head(links) \in Range(set) THEN set
                ELSE Append(set, Head(links)), Tail(links))

\* lines 122-124: what one linksetdb adds to refIds
RefsOfDb(refIds, db) ==
    IF OptGet(db, "linkname") = RefsLinkName /\ Truthy(OptGet(db, "links"))
      THEN LET links == OptGet(db, "links").v
           IN  AddAll(refIds, SubSeq(links, 1,
                   IF Len(links) < RefsPerLinkSetDb THEN Len(links)
                   ELSE RefsPerLinkSetDb))
      ELSE refIds

RECURSIVE RefsOfDbs(_, _)
RefsOfDbs(refIds, dbs) ==
    IF Len(dbs) = 0 THEN refIds
    ELSE RefsOfDbs(RefsOfDb(refIds, Head(dbs)), Tail(dbs))

\* lines 119-127: what the link sets add to refIds
RECURSIVE RefsOfLinkSets(_, _)
RefsOfLinkSets(refIds, lss) ==
    IF Len(lss) = 0 THEN refIds
    ELSE LET dbs == OptGet(Head(lss), "linksetdbs") IN
         RefsOfLinkSets(IF Truthy(dbs) THEN RefsOfDbs(refIds, dbs.v)
                        ELSE refIds, Tail(lss))

\* fetchReferences without the test of line 112
fetchReferences_unguarded(pmids, resp) ==
    IF resp.kind = "reject" THEN Thr("TransportError", 1)
    ELSE IF resp.kind = "badjson" THEN Thr("SyntaxError", 1)
    ELSE IF Nullish(resp.data) THEN Thr("TypeError", 1)
    ELSE Ret(<<>>, 1)

\* lines 111-130; forEach of a value that is no array, and a property read
\* of a null link set or linksetdb, throw
fetchReferences(pmids, resp) ==
    IF Len(pmids) = 0 THEN Ret(<<>>, 0)
    ELSE IF resp.kind = "reject" THEN Thr("TransportError", 1)
    ELSE IF resp.kind = "badjson" THEN Thr("SyntaxError", 1)
    ELSE IF Nullish(resp.data) THEN Thr("TypeError", 1)
    ELSE LET lss == OptGet(resp.data, "linksets") IN
         IF ~Truthy(lss) THEN Ret(<<>>, 1)
         ELSE IF lss.t # "array" THEN Thr("TypeError", 1)
         ELSE IF \E i \in 1..Len(lss.v) :
                    \/ Nullish(lss.v[i])
                    \/ /\ Truthy(OptGet(lss.v[i], "linksetdbs"))
                       /\ \/ OptGet(lss.v[i], "linksetdbs").t # "array"
                          \/ \E j \in 1..Len(OptGet(lss.v[i], "linksetdbs").v) :
                                Nullish(OptGet(lss.v[i], "linksetdbs").v[j])
                THEN Thr("TypeError", 1)
         ELSE Ret(RefsOfLinkSets(<<>>, lss.v), 1)

----------------------------------------------------------------------------
(* Inputs of the accessor calls *)

\* identifiers the provider knows
IdPool == {"101", "102", "103"}

\* longest identifier list passed to an accessor
MaxIds == 2

\* identifier lists without repetition, as esearch and Array.from(Set) give
IdLists ==
    {ids \in UNION {[1..n -> IdPool] : n \in 0..MaxIds} :
        \A i, j \in 1..Len(ids) : i # j => ids[i] # ids[j]}

\* the esummary document of an identifier, in the shapes the provider sends
SummaryDocs(id) ==
    { JObj([title |-> JStr(<<"T", id>>),
            authors |-> JArr(<<JObj([name |-> JStr(<<"Ito A">>)]),
                               JObj([name |-> JStr(<<"Sato B">>)])>>),
            source |-> JStr(<<"J">>), pubdate |-> JStr(<<"2024">>)]),
      JObj([title |-> JStr(<<"T", id>>), authors |-> JArr(<<>>),
            source |-> JStr(<<"J">>), pubdate |-> JStr(<<"2024">>)]),
      JObj([title |-> JStr(<<"T", id>>),
            source |-> JStr(<<"J">>), pubdate |-> JStr(<<"2024">>)]) }

\* esummary bodies: data.result holds a document for any subset of the pool
SummaryResults ==
    UNION { {f \in [S -> UNION {SummaryDocs(id) : id \in S}] :
                \A id \in S : f[id] \in SummaryDocs(id)} : S \in SUBSET IdPool }

SummaryResponses ==
    {Rejected, BadJson, Json(JNull), Json(JObj([error |-> JStr(<<"e">>)]))}
        \cup {Json(JObj([result |-> JObj(r)])) : r \in SummaryResults}

\* one accessor call is made from the idle state
CallFetchSummary ==
    /\ unit = UnitIdle
    /\ \E ids \in IdLists, resp \in SummaryResponses :
          unit' = [fn |-> "fetchSummary", ids |-> ids, resp |-> resp,
                   out |-> fetchSummary(ids, resp)]
    /\ UNCHANGED <<fw, appVars>>

\* the call is made again, the provider answering as before
CallFetchSummaryAgain ==
    /\ unit.fn = "fetchSummary"
    /\ unit' = [fn |-> "fetchSummaryTwice", ids |-> unit.ids,
                resp |-> unit.resp, first |-> unit.out,
                out |-> fetchSummary(unit.ids, unit.resp)]
    /\ UNCHANGED <<fw, appVars>>

\* the AbstractText elements of a node, in the shapes the provider sends
AbstractSegs ==
    { <<>>,
      <<[label |-> NoLabel, text |-> <<"text">>]>>,
      <<[label |-> NoLabel, text |-> <<" ">>]>>,
      <<[label |-> Label(<<"BACKGROUND">>), text |-> <<"b", " ", "c">>],
        [label |-> Label(<<>>), text |-> <<"\n", "m">>]>> }

\* efetch documents: any sequence of up to MaxIds nodes, each of a pool
\* identifier or without PMID
AbstractNodes ==
    {[pmid |-> k, segs |-> sg] : k \in IdPool \cup {""}, sg \in AbstractSegs}

AbstractResponses ==
    {Rejected} \cup
    {Xml(ns) : ns \in UNION {[1..n -> AbstractNodes] : n \in 0..MaxIds}}

CallFetchAbstracts ==
    /\ unit = UnitIdle
    /\ \E ids \in IdLists, resp \in AbstractResponses :
          unit' = [fn |-> "fetchAbstracts", ids |-> ids, resp |-> resp,
                   out |-> fetchAbstracts(ids, resp)]
    /\ UNCHANGED <<fw, appVars>>

\* an elink body whose first link set names the given links
LinkSets(links) ==
    JObj([linksets |-> JArr(<<JObj([linksetdbs |->
            JArr(<<JObj([linkname |-> JStr(<<"pubmed_pmc">>),
                         links |-> JArr(links)])>>)])>>)])

\* elink bodies for the PMC link of one identifier
\* link lists that name a PMC article
PmcLinkLists == {<<JStr(<<"7001">>)>>, <<JStr(<<"7002">>), JStr(<<"7003">>)>>}

PmcLinkResponses ==
    { Rejected, BadJson, Json(JNull),
      Json(JObj([error |-> JStr(<<"e">>)])),
      Json(JObj([linksets |-> JArr(<<>>)])),
      Json(JObj([linksets |-> JArr(<<JObj([dbfrom |-> JStr(<<"pubmed">>)])>>)])),
      Json(LinkSets(<<>>)),
      Json(LinkSets(<<JStr(<<>>)>>)) }
        \cup {Json(LinkSets(l)) : l \in PmcLinkLists}

\* body texts around the limit
BodyTexts ==
    { <<>>,
      <<Run(FALSE, 5)>>,
      <<Run(FALSE, FullTextLimit)>>,
      <<Run(FALSE, FullTextLimit + 1)>>,
      <<Run(TRUE, 3 * FullTextLimit)>>,
      <<Run(FALSE, FullTextLimit - 2), Run(TRUE, 40), Run(FALSE, 7)>>,
      <<Run(TRUE, 2), Run(TRUE, 1), Run(FALSE, 2 * FullTextLimit), Run(TRUE, 9)>> }

PmcResponses ==
    {Rejected, PmcXml(FALSE, <<>>)} \cup {PmcXml(TRUE, t) : t \in BodyTexts}

CallFetchFullText ==
    /\ unit = UnitIdle
    /\ \E pmid \in IdPool, linkResp \in PmcLinkResponses,
          pmcResp \in PmcResponses :
          unit' = [fn |-> "fetchFullText", pmid |-> pmid,
                   linkResp |-> linkResp, pmcResp |-> pmcResp,
                   out |-> fetchFullText(pmid, linkResp, pmcResp)]
    /\ UNCHANGED <<fw, appVars>>

\* the links of a linksetdb
RefLinkLists ==
    { <<"201">>, <<"201", "202", "203", "204">>,
      <<"203", "204", "205", "206">> }

\* linksetdbs: of the references link name, of another link name, and
\* without links
RefLinkSetDbs ==
    {RefsDb(l) : l \in RefLinkLists} \cup
    { JObj([linkname |-> JStr(<<"pubmed_pubmed_citedin">>),
            links |-> JArr(<<"301", "302">>)]),
      JObj([linkname |-> RefsLinkName]) }

\* link sets: without linksetdbs, or with up to two of them
RefLinkSets ==
    {JObj([dbfrom |-> JStr(<<"pubmed">>)])} \cup
    {JObj([linksetdbs |-> JArr(dbs)]) :
        dbs \in UNION {[1..n -> RefLinkSetDbs] : n \in 0..2}}

\* elink bodies for the references of a request
RefLinkResponses ==
    { Rejected, BadJson, Json(JNull),
      Json(JObj([error |-> JStr(<<"e">>)])),
      Json(JObj([linksets |-> JStr(<<"none">>)])),
      Json(JObj([linksets |-> JArr(<<JNull>>)])) }
        \cup {Json(JObj([linksets |-> JArr(lss)])) :
                lss \in UNION {[1..n -> RefLinkSets] : n \in 0..2}}

CallFetchReferences ==
    /\ unit = UnitIdle
    /\ \E ids \in IdLists, resp \in RefLinkResponses :
          unit' = [fn |-> "fetchReferences", ids |-> ids, resp |-> resp,
                   out |-> fetchReferences(ids, resp)]
    /\ UNCHANGED <<fw, appVars>>

AccNext ==
    \/ CallFetchSummary
    \/ CallFetchFullText
    \/ CallFetchAbstracts
    \/ CallFetchReferences
    \/ CallFetchSummaryAgain

InitAcc ==
    /\ fw = FwStart
    /\ unit = UnitIdle
    /\ AppStart

SpecAcc == InitAcc /\ [][AccNext]_vars

----------------------------------------------------------------------------
(* Claims about fetchSummary *)

\* C6 (as claimed): for a non-empty identifier list and a provider response
\* that arrived and parsed, fetchSummary returns one record per input
\* identifier, in input order, also when the response omits identifiers.
C6_OneRecordPerIdentifier ==
    (/\ unit.fn = "fetchSummary"
     /\ Len(unit.ids) > 0
     /\ unit.resp.kind = "json"
     /\ OptGet(unit.resp.data, "result").t = "object")
        => /\ unit.out.kind = "return"
           /\ Len(unit.out.value) = Len(unit.ids)
           /\ \A i \in 1..Len(unit.ids) : unit.out.value[i].id = unit.ids[i]

\* C7 (as claimed): for a non-empty identifier list, whatever nodes the
\* provider returns, the keys of the returned mapping are exactly the input
\* identifiers.
C7_KeysAreTheInputIdentifiers ==
    (/\ unit.fn = "fetchAbstracts"
     /\ Len(unit.ids) > 0
     /\ unit.resp.kind = "xml")
        => /\ unit.out.kind = "return"
           /\ DOMAIN unit.out.value = Range(unit.ids)

----------------------------------------------------------------------------
(* Claims about fetchFullText *)

\* the link the elink body names first, when the body has the full shape
NamedLink(linkResp) ==
    linkResp.data.v["linksets"].v[1].v["linksetdbs"].v[1].v["links"].v[1].v

HasLink(linkResp) == linkResp \in {Json(LinkSets(l)) : l \in PmcLinkLists}

\* C4: whatever the link hop and the body hop come to, fetchFullText does
\* not throw: it returns null, or a string that starts with the marker
\* "[FULL TEXT FROM PMC<first link>]\n" and whose body part has at most
\* 10,000 characters; it returns null whenever a hop failed or found nothing.
C4_FullTextNeverRaises ==
    unit.fn = "fetchFullText"
        => /\ unit.out.kind = "return"
           /\ \/ unit.out.value = JNull
              \/ /\ unit.out.value.t = "string"
                 /\ HasLink(unit.linkResp)
                 /\ unit.out.value.marker =
                        <<"[FULL TEXT FROM ", "PMC">>
                            \o NamedLink(unit.linkResp) \o <<"]", "\n">>
                 /\ TextLen(unit.out.value.body) <= FullTextLimit
           /\ (\/ ~HasLink(unit.linkResp)
               \/ unit.pmcResp.kind = "reject"
               \/ ~unit.pmcResp.hasBody) => unit.out.value = JNull

\* a body longer than the limit came back cut to exactly the limit
C4_Witness ==
    /\ unit.fn = "fetchFullText"
    /\ unit.out.kind = "return"
    /\ unit.out.value # JNull
    /\ TextLen(unit.pmcResp.text) > FullTextLimit
    /\ TextLen(unit.out.value.body) = FullTextLimit

----------------------------------------------------------------------------
(* Claims about fetchWithRetry *)

IsRequest(e) == e.kind \in {"response", "throw"}

IsNonTransientFailure(e) ==
    e.kind = "response" /\ ~ResOk(e.status) /\ ~IsTransientStatus(e.status)

\* C1 (as claimed): a non-ok response whose status is neither 429 nor >= 500
\* ends the call at once: it is the only request, nothing (no sleep, no
\* further request) follows it, and the call is rejected.
C1_NonTransientFailsImmediately ==
    \A i \in 1..Len(fw.log) :
        IsNonTransientFailure(fw.log[i])
            => /\ i = Len(fw.log)
               /\ fw.pc = "rejected"

\* C2: with the default budget of 3 the call issues at most 4 requests; it
\* returns on the first ok response and issues nothing after it; a sleep
\* precedes every request but the first; a rejection comes only after the
\* fourth request and carries the error of the last failure; and until it
\* has returned or rejected the call can always take a step.
C2_BoundedRetry ==
    /\ fw.requests <= DefaultRetries + 1
    /\ fw.requests = Cardinality({i \in 1..Len(fw.log) : IsRequest(fw.log[i])})
    /\ \A i \in 1..Len(fw.log) :
          /\ (fw.log[i].kind = "response" /\ ResOk(fw.log[i].status))
                => (i = Len(fw.log) /\ fw.pc = "returned")
          /\ (IsRequest(fw.log[i]) /\ i > 1) => fw.log[i-1].kind = "sleep"
          /\ fw.log[i].kind = "sleep" => (i > 1 /\ IsRequest(fw.log[i-1]))
    /\ fw.pc = "returned"
          => (Last(fw.log).kind = "response" /\ ResOk(Last(fw.log).status))
    /\ fw.pc = "rejected"
          => /\ fw.requests = DefaultRetries + 1
             /\ fw.sleeps = DefaultRetries
             /\ fw.error = ErrorOf(Last(fw.log))
    /\ fw.pc \in {"returned", "rejected"} \/ ENABLED FwNext

\* the budget is used up by four failures of different kinds
C2_Witness ==
    /\ fw.pc = "rejected"
    /\ fw.requests = 4
    /\ \E i, j \in 1..Len(fw.log) :
          fw.log[i].kind = "throw" /\ IsNonTransientFailure(fw.log[j])

----------------------------------------------------------------------------
(* executePubMedSearch, pubmedService.ts 28-41 *)

\* lines 34-40; identifiers are kept as atomic strings; the count, which no
\* handler reads but to display it, is passed through unparsed
executePubMedSearch(resp) ==
    IF resp.kind = "reject" THEN Thr("TransportError", 1)
    ELSE IF resp.kind = "badjson" THEN Thr("SyntaxError", 1)
    ELSE IF Nullish(resp.data) THEN Thr("TypeError", 1)
    ELSE LET r == OptGet(resp.data, "esearchresult") IN
         IF Nullish(r) THEN Thr("TypeError", 1)
         ELSE LET idlist == OptGet(r, "idlist") IN
              Ret([count |-> OptGet(r, "count"),
                   ids |-> IF Truthy(idlist) THEN idlist.v ELSE <<>>], 1)

----------------------------------------------------------------------------
(* callGeminiTitleTranslation, App file 478-501 *)

Raised == [kind |-> "throw"]
Text(ok, v) == [kind |-> "text", parses |-> ok, value |-> v]

\* a translation that raises on text that does not parse
callGeminiTitleTranslation_strict(summaries, resp) ==
    IF Len(summaries) = 0 THEN Ret([k \in {} |-> <<>>], 0)
    ELSE IF resp.kind = "throw" THEN Thr("ApiError", 1)
    ELSE IF ~resp.parses THEN Thr("SyntaxError", 1)
    ELSE Ret(resp.value, 1)

\* lines 479-500: generateContent may reject; text that does not parse
\* gives {}
callGeminiTitleTranslation(summaries, resp) ==
    IF Len(summaries) = 0 THEN Ret([k \in {} |-> <<>>], 0)
    ELSE IF resp.kind = "throw" THEN Thr("ApiError", 1)
    ELSE IF ~resp.parses THEN Ret([k \in {} |-> <<>>], 1)
    ELSE Ret(resp.value, 1)

----------------------------------------------------------------------------
(* callGeminiReview, App file 503-550 *)

ReportFailed == "Report generation failed."

\* lines 541-549: generateContent may reject; response.text || the fixed
\* failure string
callGeminiReview(articlesData, referenceData, resp) ==
    IF resp.kind = "throw" THEN Thr("ApiError", 1)
    ELSE Ret(IF resp.value = "" THEN ReportFailed ELSE resp.value, 1)

----------------------------------------------------------------------------
(* The App component: what the provider and the backend can answer *)

\* the articles of the repository a search can find
ArticleIds == {"101", "102"}

\* the terms an analysis extracts
Terms == <<"t1", "t2">>

\* line 50: slice(0, 5)
PreselectedTerms == 5

\* the lists of distinct article identifiers
ArticleIdLists ==
    {ids \in UNION {[1..n -> ArticleIds] : n \in 0..Cardinality(ArticleIds)} :
        \A i, j \in 1..Len(ids) : i # j => ids[i] # ids[j]}

\* the esearch body that lists ids
SearchResponse(ids) ==
    Json(JObj([esearchresult |->
        JObj([count |-> JStr(<<"57">>), idlist |-> JArr(ids)])]))

\* the esummary document of an identifier
DocOf(id) ==
    JObj([title |-> JStr(<<"T", id>>),
          authors |-> JArr(<<JObj([name |-> JStr(<<"Ito A">>)])>>),
          source |-> JStr(<<"J">>), pubdate |-> JStr(<<"2024">>)])

\* the esummary answer to a request: none, a document for every requested
\* identifier, or a document for every one but the last
SummaryKinds == {"reject", "complete", "lacksLast"}

SummaryResponse(kind, ids) ==
    IF kind = "reject" THEN Rejected
    ELSE Json(JObj([result |->
            JObj([k \in IF kind = "complete" THEN Range(ids)
                        ELSE Range(ids) \ {ids[Len(ids)]} |-> DocOf(k)])]))

\* the answer of the title translation: a rejection, text that does not
\* parse, a mapping for every title, or a mapping for the first title alone
TranslationKinds == {"throw", "unparsable", "all", "first"}

TranslationResponse(kind, summaries) ==
    IF kind = "throw" THEN Raised
    ELSE IF kind = "unparsable" THEN Text(FALSE, <<>>)
    ELSE Text(TRUE,
            [k \in IF kind = "all"
                     THEN {summaries[i].id : i \in 1..Len(summaries)}
                     ELSE {summaries[1].id} |-> <<"ja", k>>])

\* the efetch answer to a request: none, a node with text for every
\* requested identifier, or an empty node for the first identifier alone
AbstractKinds == {"reject", "all", "firstEmpty"}

AbstractResponse(kind, ids) ==
    IF kind = "reject" THEN Rejected
    ELSE IF kind = "all"
      THEN Xml([k \in 1..Len(ids) |->
                 [pmid |-> ids[k],
                  segs |-> <<[label |-> Label(<<"AIM">>),
                              text |-> <<"of", ids[k]>>]>>]])
    ELSE Xml(<<[pmid |-> ids[1], segs |-> <<>>]>>)

\* the two hops of a full-text request: no answer, no link, a link whose
\* article cannot be fetched, or a link with a body
FullTextKinds == {"reject", "nolink", "unfetched", "text"}

FullTextResponse(kind, pmid) ==
    IF kind = "reject" THEN <<Rejected, Rejected>>
    ELSE IF kind = "nolink" THEN <<Json(LinkSets(<<>>)), Rejected>>
    ELSE IF kind = "unfetched"
      THEN <<Json(LinkSets(<<JStr(<<"7", pmid>>)>>)), Rejected>>
    ELSE <<Json(LinkSets(<<JStr(<<"7", pmid>>)>>)),
           PmcXml(TRUE, <<Run(FALSE, FullTextLimit + 1)>>)>>

\* the references of the repository
RefIds == <<"201", "202", "203", "204", "205", "206", "207", "208", "209">>

\* the elink answer to a request: none, no link sets, a link set of four
\* references, or a link set whose three linksetdbs name nine references
ReferenceKinds == {"reject", "none", "four", "nine"}

ReferenceResponse(kind) ==
    IF kind = "reject" THEN Rejected
    ELSE IF kind = "none" THEN Json(JObj([header |-> JStr(<<"h">>)]))
    ELSE IF kind = "four"
      THEN Json(JObj([linksets |-> JArr(<<JObj([linksetdbs |->
              JArr(<<RefsDb(SubSeq(RefIds, 1, 4))>>)])>>)]))
    ELSE Json(JObj([linksets |-> JArr(<<JObj([linksetdbs |->
            JArr(<<RefsDb(SubSeq(RefIds, 1, 3)), RefsDb(SubSeq(RefIds, 4, 6)),
                   RefsDb(SubSeq(RefIds, 7, 9))>>)])>>)]))

\* the answer of the synthesis: a rejection, no text, or a report
ReviewKinds == {"throw", "empty", "report"}

ReviewResponse(kind) ==
    IF kind = "throw" THEN Raised
    ELSE IF kind = "empty" THEN Text(TRUE, "")
    ELSE Text(TRUE, "report")

----------------------------------------------------------------------------
(* handleInitialAnalyze, App file 42-56; toggleTerm 139-144 *)

\* line 203: the Analyze button is disabled while an analysis is loading
AnalyzeDisabled == analyzeStatus = LOADING

\* lines 43-47: the click with the typed text; up to the await
AnalyzeClick(text) ==
    /\ ~AnalyzeDisabled
    /\ Len(Trim(text)) > 0
    /\ analyzeStatus' = LOADING
    /\ meshTerms' = <<>>
    /\ UNCHANGED <<fw, unit, selectedTerms, articles, searchStatus,
                   selectedArticleIds, translatingTitles, reviewStatus,
                   statusMessage, reportOutput, searches, reviews>>

\* lines 47-55: callGeminiAnalysis settles
AnalyzeSettles(ok) ==
    /\ analyzeStatus = LOADING
    /\ IF ok
         THEN /\ meshTerms' = Terms
              /\ selectedTerms' =
                    Range(SubSeq(Terms, 1,
                        IF Len(Terms) < PreselectedTerms
                          THEN Len(Terms) ELSE PreselectedTerms))
              /\ analyzeStatus' = SUCCESS
         ELSE /\ analyzeStatus' = ERROR
              /\ UNCHANGED <<meshTerms, selectedTerms>>
    /\ UNCHANGED <<fw, unit, articles, searchStatus, selectedArticleIds,
                   translatingTitles, reviewStatus, statusMessage,
                   reportOutput, searches, reviews>>

\* lines 140-142: the copy of the set, without term when it has it and
\* with term otherwise
ToggledTerms(selected, term) ==
    IF term \in selected THEN selected \ {term} ELSE selected \cup {term}

\* lines 139-144; the term buttons are those of meshTerms (lines 220-232)
toggleTerm(term) ==
    /\ term \in Range(meshTerms)
    /\ selectedTerms' = ToggledTerms(selectedTerms, term)
    /\ UNCHANGED <<fw, unit, meshTerms, analyzeStatus, articles, searchStatus,
                   selectedArticleIds, translatingTitles, reviewStatus,
                   statusMessage, reportOutput, searches, reviews>>


----------------------------------------------------------------------------
(* handleSearch, App file 58-88; toggleArticle 146-151 *)

RemoveAt(s, i) == SubSeq(s, 1, i - 1) \o SubSeq(s, i + 1, Len(s))

\* line 269: the Retrieve button is disabled while a search is loading or
\* no term is selected
RetrieveDisabled == searchStatus = LOADING \/ selectedTerms = {}

\* a handler without the test of line 59 behind an always enabled button
SearchClick_unguarded ==
    /\ searchStatus' = LOADING
    /\ articles' = <<>>
    /\ selectedArticleIds' = <<>>
    /\ searches' = Append(searches, [pc |-> "esearch", arg |-> <<>>])
    /\ UNCHANGED <<fw, unit, meshTerms, selectedTerms, analyzeStatus,
                   translatingTitles, reviewStatus, statusMessage,
                   reportOutput, reviews>>

\* lines 59-65: the click; up to the await of executePubMedSearch
SearchClick ==
    /\ ~RetrieveDisabled
    /\ selectedTerms # {}
    /\ searchStatus' = LOADING
    /\ articles' = <<>>
    /\ selectedArticleIds' = <<>>
    /\ searches' = Append(searches, [pc |-> "esearch", arg |-> <<>>])
    /\ UNCHANGED <<fw, unit, meshTerms, selectedTerms, analyzeStatus,
                   translatingTitles, reviewStatus, statusMessage,
                   reportOutput, reviews>>

\* lines 84-87: the catch clause
SearchFails(i) ==
    /\ searchStatus' = ERROR
    /\ searches' = RemoveAt(searches, i)
    /\ UNCHANGED <<articles, translatingTitles>>

\* lines 65-69 and 81-83: executePubMedSearch settles
SearchSettles(i, resp) ==
    /\ i \in 1..Len(searches)
    /\ searches[i].pc = "esearch"
    /\ LET r == executePubMedSearch(resp) IN
       IF r.kind = "throw" THEN SearchFails(i)
       ELSE IF Len(r.value.ids) > 0
         THEN /\ searches' =
                    [searches EXCEPT ![i] =
                        [pc |-> "esummary", arg |-> r.value.ids]]
              /\ UNCHANGED <<searchStatus, articles, translatingTitles>>
       ELSE /\ searchStatus' = SUCCESS
            /\ searches' = RemoveAt(searches, i)
            /\ UNCHANGED <<articles, translatingTitles>>
    /\ UNCHANGED <<fw, unit, meshTerms, selectedTerms, analyzeStatus,
                   selectedArticleIds, reviewStatus, statusMessage,
                   reportOutput, reviews>>

\* lines 69-75: fetchSummary settles on an answer of the given kind
SummarySettles(i, kind) ==
    /\ i \in 1..Len(searches)
    /\ searches[i].pc = "esummary"
    /\ LET ids == searches[i].arg
           r == fetchSummary(ids, SummaryResponse(kind, ids))
       IN  IF r.kind = "throw" THEN SearchFails(i)
           ELSE /\ articles' = r.value
                /\ searchStatus' = SUCCESS
                /\ translatingTitles' = TRUE
                /\ searches' =
                      [searches EXCEPT ![i] =
                          [pc |-> "translate", arg |-> r.value]]
    /\ UNCHANGED <<fw, unit, meshTerms, selectedTerms, analyzeStatus,
                   selectedArticleIds, reviewStatus, statusMessage,
                   reportOutput, reviews>>

\* line 78: jpTitles[a.id] || ""
TitleJaOf(jpTitles, id) ==
    IF id \in DOMAIN jpTitles THEN jpTitles[id] ELSE <<>>

\* lines 76-79: prev => prev.map(a => ({...a, titleJa: jpTitles[a.id] || ""}))
WithTitles(prev, jpTitles) ==
    [k \in 1..Len(prev) |->
        [titleJa |-> TitleJaOf(jpTitles, prev[k].id)] @@ prev[k]]

\* lines 75-80: callGeminiTitleTranslation settles on an answer of the
\* given kind
TranslationSettles(i, kind) ==
    /\ i \in 1..Len(searches)
    /\ searches[i].pc = "translate"
    /\ LET summaries == searches[i].arg
           r == callGeminiTitleTranslation(summaries,
                    TranslationResponse(kind, summaries))
       IN  IF r.kind = "throw" THEN SearchFails(i)
           ELSE /\ articles' = WithTitles(articles, r.value)
                /\ translatingTitles' = FALSE
                /\ searches' = RemoveAt(searches, i)
                /\ UNCHANGED searchStatus
    /\ UNCHANGED <<fw, unit, meshTerms, selectedTerms, analyzeStatus,
                   selectedArticleIds, reviewStatus, statusMessage,
                   reportOutput, reviews>>

\* a toggle that never deletes: an identifier the set has stays in it
ToggledArticles_addOnly(selected, id) ==
    IF id \in Range(selected) THEN selected ELSE Append(selected, id)

\* lines 147-149: the copy of the set, in insertion order, without id when
\* it has it and with id added last otherwise
ToggledArticles(selected, id) ==
    IF id \in Range(selected)
      THEN SelectSeq(selected, LAMBDA x : x # id)
      ELSE Append(selected, id)

\* lines 146-151; the rows are those of articles (lines 313-318)
toggleArticle(id) ==
    /\ \E k \in 1..Len(articles) : articles[k].id = id
    /\ selectedArticleIds' = ToggledArticles(selectedArticleIds, id)
    /\ UNCHANGED <<fw, unit, meshTerms, selectedTerms, analyzeStatus,
                   articles, searchStatus, translatingTitles, reviewStatus,
                   statusMessage, reportOutput, searches, reviews>>

----------------------------------------------------------------------------
(* handleDeepReview, App file 90-137 *)

\* line 111: slice(0, 8)
TopRefs == 8

MsgAbstracts == "Retrieving abstracts..."
MsgFullText == "Attempting full text retrieval (PMC)..."
MsgReferences == "Analyzing citation network..."
MsgSynthesis == "Gemini is synthesizing report..."

\* line 135
ErrorReport ==
    "An error occurred during synthesis. Please check the console for details."

EmptyMap == [k \in {} |-> <<>>]

InFlight(run) == run.pc \notin {"done", "failed"}

ReviewsInFlight == {i \in 1..Len(reviews) : InFlight(reviews[i])}

\* a button that stays enabled while a review is loading
SynthesizeDisabled_ignoresLoading == Len(selectedArticleIds) = 0

\* line 366: the Synthesize button is disabled while a review is loading
\* or no article is selected
SynthesizeDisabled == reviewStatus = LOADING \/ Len(selectedArticleIds) = 0

\* an invocation at its first await: ids is Array.from(selectedArticleIds)
\* and arts the articles of the render the handler belongs to; returned is
\* what fetchFullText gave for each identifier, trace the calls made so far,
\* args the identifiers each of them was given (none for the synthesis) and
\* failedAt the call that raised
ReviewStart(ids, arts) ==
    [pc |-> "abstracts", ids |-> ids, arts |-> arts,
     abstracts |-> EmptyMap, fullTexts |-> EmptyMap, returned |-> EmptyMap,
     k |-> 0, refIds |-> <<>>, topRefs |-> <<>>, refSummaries |-> <<>>,
     selectedData |-> <<>>, refData |-> <<>>,
     trace |-> <<"abstracts">>, args |-> <<ids>>, failedAt |-> "none"]

\* an invocation that has returned: its locals are gone
ReviewEnd(run, pc, stage) ==
    [ReviewStart(<<>>, <<>>) EXCEPT
        !.pc = pc, !.trace = run.trace, !.failedAt = stage]

\* lines 91-98: the click; up to the await of fetchAbstracts
ReviewClick ==
    /\ ~SynthesizeDisabled
    /\ Len(selectedArticleIds) # 0
    /\ reviewStatus' = LOADING
    /\ statusMessage' = MsgAbstracts
    /\ reviews' = Append(SelectSeq(reviews, InFlight),
                         ReviewStart(selectedArticleIds, articles))
    /\ UNCHANGED <<fw, unit, meshTerms, selectedTerms, analyzeStatus,
                   articles, searchStatus, selectedArticleIds,
                   translatingTitles, reportOutput, searches>>

\* what a step of an invocation leaves alone
ReviewFrame ==
    UNCHANGED <<fw, unit, meshTerms, selectedTerms, analyzeStatus, articles,
                searchStatus, selectedArticleIds, translatingTitles, searches>>

\* a catch clause that leaves the report as it is
ReviewFails_noReport(i, stage) ==
    /\ reviewStatus' = ERROR
    /\ reviews' = [reviews EXCEPT ![i] = ReviewEnd(@, "failed", stage)]
    /\ UNCHANGED <<statusMessage, reportOutput>>

\* lines 132-136: the catch clause
ReviewFails(i, stage) ==
    /\ reviewStatus' = ERROR
    /\ reportOutput' = ErrorReport
    /\ reviews' = [reviews EXCEPT ![i] = ReviewEnd(@, "failed", stage)]
    /\ UNCHANGED statusMessage

\* a step that moves invocation i on to its next await
ReviewMoves(i, run) ==
    /\ reviews' = [reviews EXCEPT ![i] = run]
    /\ UNCHANGED <<reviewStatus, reportOutput>>

\* lines 98-103: fetchAbstracts settles; the loop starts
AbstractsSettles(i, kind) ==
    /\ i \in 1..Len(reviews)
    /\ reviews[i].pc = "abstracts"
    /\ LET ids == reviews[i].ids
           r == fetchAbstracts(ids, AbstractResponse(kind, ids))
       IN  IF r.kind = "throw"
             THEN ReviewFails(i, "abstracts")
             ELSE /\ statusMessage' = MsgFullText
                  /\ ReviewMoves(i,
                        [reviews[i] EXCEPT
                            !.abstracts = r.value, !.pc = "fullText",
                            !.k = 1, !.trace = Append(@, "fullText"),
                            !.args = Append(@, ids[1])])
    /\ ReviewFrame

\* line 104: if (text)
TruthyText(text) ==
    text # JNull /\ Len(text.marker) + TextLen(text.body) > 0

\* a loop that ends after its first round
MoreFullTexts_never(run) == FALSE

\* line 102: for (const pmid of ids) has a further round
MoreFullTexts(run) == run.k < Len(run.ids)

\* lines 103-108: fetchFullText settles; the loop goes on or ends
FullTextSettles(i, kind) ==
    /\ i \in 1..Len(reviews)
    /\ reviews[i].pc = "fullText"
    /\ LET run == reviews[i]
           pmid == run.ids[run.k]
           resp == FullTextResponse(kind, pmid)
           r == fetchFullText(pmid, resp[1], resp[2])
           got == [run EXCEPT
                     !.fullTexts = IF TruthyText(r.value)
                                     THEN (pmid :> r.value) @@ @ ELSE @,
                     !.returned = (pmid :> r.value) @@ @]
       IN  IF r.kind = "throw"
             THEN ReviewFails(i, "fullText")
           ELSE IF MoreFullTexts(run)
             THEN /\ UNCHANGED statusMessage
                  /\ ReviewMoves(i,
                        [got EXCEPT !.k = @ + 1,
                                    !.trace = Append(@, "fullText"),
                                    !.args = Append(@, run.ids[run.k + 1])])
           ELSE /\ statusMessage' = MsgReferences
                /\ ReviewMoves(i,
                      [got EXCEPT !.pc = "references",
                                  !.trace = Append(@, "references"),
                                  !.args = Append(@, run.ids)])
    /\ ReviewFrame

\* line 125: abstracts[a.id] || "", and line 116
AbstractField(abstracts, id) ==
    IF id \in DOMAIN abstracts THEN abstracts[id] ELSE <<>>

\* line 126: fullTexts[a.id] || null
FullTextField(fullTexts, id) ==
    IF id \in DOMAIN fullTexts /\ TruthyText(fullTexts[id])
      THEN fullTexts[id] ELSE JNull

\* lines 121-127: the selected articles of the handler's render, each with
\* its abstract and full text
SelectedData(run) ==
    LET chosen == SelectSeq(run.arts, LAMBDA a : a.id \in Range(run.ids))
    IN  [n \in 1..Len(chosen) |->
            [abstract |-> AbstractField(run.abstracts, chosen[n].id),
             fullText |-> FullTextField(run.fullTexts, chosen[n].id)]
                @@ chosen[n]]

\* lines 114-117
RefData(refSummaries, refAbs) ==
    [n \in 1..Len(refSummaries) |->
        [abstract |-> AbstractField(refAbs, refSummaries[n].id)]
            @@ refSummaries[n]]

\* a hand-over to synthesis that emits no status message
ToSynthesis_silent(i, run, refData) ==
    /\ UNCHANGED statusMessage
    /\ ReviewMoves(i,
          [run EXCEPT !.refData = refData, !.selectedData = SelectedData(run),
                      !.pc = "synthesis", !.trace = Append(@, "synthesis"),
                      !.args = Append(@, <<>>)])

\* lines 120-129: the bundle is built and callGeminiReview is called
ToSynthesis(i, run, refData) ==
    /\ statusMessage' = MsgSynthesis
    /\ ReviewMoves(i,
          [run EXCEPT !.refData = refData, !.selectedData = SelectedData(run),
                      !.pc = "synthesis", !.trace = Append(@, "synthesis"),
                      !.args = Append(@, <<>>)])

\* the references enriched are all that were found
TopRefsOf_uncapped(refIds) == refIds

\* line 111: refIds.slice(0, 8)
TopRefsOf(refIds) ==
    SubSeq(refIds, 1, IF Len(refIds) < TopRefs THEN Len(refIds) ELSE TopRefs)

\* lines 108-112: fetchReferences settles
ReferencesSettle(i, kind) ==
    /\ i \in 1..Len(reviews)
    /\ reviews[i].pc = "references"
    /\ LET r == fetchReferences(reviews[i].ids, ReferenceResponse(kind)) IN
       IF r.kind = "throw" THEN ReviewFails(i, "references")
       ELSE IF Len(r.value) > 0
         THEN /\ UNCHANGED statusMessage
              /\ ReviewMoves(i,
                    [reviews[i] EXCEPT
                        !.refIds = r.value,
                        !.topRefs = TopRefsOf(r.value),
                        !.pc = "refSummary",
                        !.trace = Append(@, "refSummary"),
                        !.args = Append(@, TopRefsOf(r.value))])
       ELSE ToSynthesis(i, reviews[i], <<>>)
    /\ ReviewFrame

\* lines 112-113: fetchSummary(topRefs) settles
RefSummarySettles(i, kind) ==
    /\ i \in 1..Len(reviews)
    /\ reviews[i].pc = "refSummary"
    /\ LET ids == reviews[i].topRefs
           r == fetchSummary(ids, SummaryResponse(kind, ids))
       IN  IF r.kind = "throw"
             THEN ReviewFails(i, "refSummary")
             ELSE /\ UNCHANGED statusMessage
                  /\ ReviewMoves(i,
                        [reviews[i] EXCEPT
                            !.refSummaries = r.value, !.pc = "refAbstracts",
                            !.trace = Append(@, "refAbstracts"),
                            !.args = Append(@, ids)])
    /\ ReviewFrame

\* lines 113-117: fetchAbstracts(topRefs) settles
RefAbstractsSettle(i, kind) ==
    /\ i \in 1..Len(reviews)
    /\ reviews[i].pc = "refAbstracts"
    /\ LET ids == reviews[i].topRefs
           r == fetchAbstracts(ids, AbstractResponse(kind, ids))
       IN  IF r.kind = "throw"
             THEN ReviewFails(i, "refAbstracts")
             ELSE ToSynthesis(i, reviews[i],
                              RefData(reviews[i].refSummaries, r.value))
    /\ ReviewFrame

\* lines 129-131: callGeminiReview settles
SynthesisSettles(i, kind) ==
    /\ i \in 1..Len(reviews)
    /\ reviews[i].pc = "synthesis"
    /\ LET r == callGeminiReview(reviews[i].selectedData,
                                 reviews[i].refData, ReviewResponse(kind)) IN
       IF r.kind = "throw" THEN ReviewFails(i, "synthesis")
       ELSE /\ reportOutput' = r.value
            /\ reviewStatus' = SUCCESS
            /\ reviews' = [reviews EXCEPT ![i] = ReviewEnd(@, "done", "none")]
            /\ UNCHANGED statusMessage
    /\ ReviewFrame

----------------------------------------------------------------------------
(* The App component *)

Init ==
    /\ fw = FwStart
    /\ unit = UnitIdle
    /\ AppStart

\* handleSearch invocations the model lets be suspended together
MaxSearches == 2

\* handleDeepReview invocations the model lets be suspended together
MaxReviews == 2

\* the esearch answers: none, or any list of identifiers
SearchResponses == {Rejected} \cup {SearchResponse(ids) : ids \in ArticleIdLists}

\* analysis, term selection and overlapping searches, every answer possible
NextSearch ==
    \/ \E text \in {<<" ">>, <<"q">>} : AnalyzeClick(text)
    \/ \E ok \in BOOLEAN : AnalyzeSettles(ok)
    \/ \E term \in Range(Terms) : toggleTerm(term)
    \/ Len(searches) < MaxSearches /\ SearchClick
    \/ \E i \in 1..MaxSearches, resp \in SearchResponses : SearchSettles(i, resp)
    \/ \E i \in 1..MaxSearches, kind \in SummaryKinds : SummarySettles(i, kind)
    \/ \E i \in 1..MaxSearches, kind \in TranslationKinds :
          TranslationSettles(i, kind)
    \/ \E id \in ArticleIds : toggleArticle(id)

SpecSearch == Init /\ [][NextSearch]_vars

\* one analysis, searches one at a time that list both articles, article
\* selection and deep reviews, every answer to a review's calls possible
NextReview ==
    \/ analyzeStatus = IDLE /\ AnalyzeClick(<<"q">>)
    \/ AnalyzeSettles(TRUE)
    \/ searches = <<>> /\ SearchClick
    \/ SearchSettles(1, SearchResponse(<<"101", "102">>))
    \/ SummarySettles(1, "complete")
    \/ TranslationSettles(1, "all")
    \/ \E id \in ArticleIds : toggleArticle(id)
    \/ Cardinality(ReviewsInFlight) < MaxReviews /\ ReviewClick
    \/ \E i \in 1..MaxReviews, kind \in AbstractKinds : AbstractsSettles(i, kind)
    \/ \E i \in 1..MaxReviews, kind \in FullTextKinds : FullTextSettles(i, kind)
    \/ \E i \in 1..MaxReviews, kind \in ReferenceKinds : ReferencesSettle(i, kind)
    \/ \E i \in 1..MaxReviews, kind \in SummaryKinds : RefSummarySettles(i, kind)
    \/ \E i \in 1..MaxReviews, kind \in AbstractKinds : RefAbstractsSettle(i, kind)
    \/ \E i \in 1..MaxReviews, kind \in ReviewKinds : SynthesisSettles(i, kind)

SpecReview == Init /\ [][NextReview]_vars

\* one analysis, term and article selection, searches one at a time that
\* list both articles, and deep reviews whose first call is rejected
NextSelect ==
    \/ analyzeStatus = IDLE /\ AnalyzeClick(<<"q">>)
    \/ AnalyzeSettles(TRUE)
    \/ \E term \in Range(Terms) : toggleTerm(term)
    \/ searches = <<>> /\ SearchClick
    \/ SearchSettles(1, SearchResponse(<<"101", "102">>))
    \/ SummarySettles(1, "complete")
    \/ TranslationSettles(1, "all")
    \/ \E id \in ArticleIds : toggleArticle(id)
    \/ Cardinality(ReviewsInFlight) < MaxReviews /\ ReviewClick
    \/ \E i \in 1..MaxReviews : AbstractsSettles(i, "reject")

SpecSelect == Init /\ [][NextSelect]_vars

----------------------------------------------------------------------------
(* Claims about handleDeepReview *)

\* the calls of a run other than the best-effort full-text call
NonBestEffortStages ==
    {"abstracts", "references", "refSummary", "refAbstracts", "synthesis"}

\* C3: a run whose abstract fetch, reference lookup, reference summary,
\* reference abstract or synthesis call raised has ended as failed, with
\* reviewStatus ERROR and the generic error message as the report; the call
\* that raised is the last call the run made, and synthesis was called only
\* if it is the call that raised.
C3_FailedRunEndsInError ==
    \A i \in 1..Len(reviews) :
        LET run == reviews[i] IN
        run.failedAt \in NonBestEffortStages =>
            /\ run.pc = "failed"
            /\ reviewStatus = ERROR
            /\ reportOutput = ErrorReport
            /\ Last(run.trace) = run.failedAt
            /\ (run.failedAt # "synthesis"
                  => "synthesis" \notin Range(run.trace))

\* a run that failed at its reference abstracts call, the calls before it
\* made
C3_Witness ==
    \E i \in 1..Len(reviews) :
        /\ reviews[i].failedAt = "refAbstracts"
        /\ Len(reviews[i].trace) > 4

\* C5: at most one handleDeepReview invocation is in flight; one is in
\* flight exactly while reviewStatus is LOADING, and while it is LOADING a
\* further initiation is not possible.
C5_OneReviewInFlight ==
    /\ Cardinality(ReviewsInFlight) <= 1
    /\ (ReviewsInFlight # {}) <=> (reviewStatus = LOADING)
    /\ (reviewStatus = LOADING => ~ENABLED ReviewClick)

\* a run at its synthesis call while articles are selected
C5_Witness ==
    /\ Len(selectedArticleIds) # 0
    /\ \E i \in ReviewsInFlight : reviews[i].pc = "synthesis"

\* the phase a call belongs to: Resolving-Abstracts, Resolving-FullText,
\* Resolving-References, Resolving-ReferenceDetail, Synthesizing
PhaseOf(call) ==
    CASE call = "abstracts" -> 1
      [] call = "fullText" -> 2
      [] call = "references" -> 3
      [] call \in {"refSummary", "refAbstracts"} -> 4
      [] call = "synthesis" -> 5

\* the calls of a run go through the phases in order
PhasesInOrder(trace) ==
    /\ trace[1] = "abstracts"
    /\ \A n \in 1..(Len(trace) - 1) :
          PhaseOf(trace[n]) <= PhaseOf(trace[n + 1])

\* the status messages the handler emits, by phase
PhaseMessages ==
    [p \in {1, 2, 3, 5} |->
        CASE p = 1 -> MsgAbstracts
          [] p = 2 -> MsgFullText
          [] p = 3 -> MsgReferences
          [] p = 5 -> MsgSynthesis]

\* C9 as stated: the calls of a run go through the phases in order, and
\* while a call of a phase is in flight the status message is one emitted
\* for that phase, not the message of another phase.
C9_MessageBeforeEveryPhase ==
    \A i \in ReviewsInFlight :
        LET p == PhaseOf(reviews[i].pc) IN
        /\ PhasesInOrder(reviews[i].trace)
        /\ statusMessage \notin {PhaseMessages[q] : q \in {1, 2, 3, 5} \ {p}}
        /\ (p # 4 => statusMessage = PhaseMessages[p])

\* C9, amended: the calls of a run go through the phases in order; while a
\* call of Resolving-Abstracts, Resolving-FullText, Resolving-References or
\* Synthesizing is in flight the status message is that phase's, and the
\* calls of Resolving-ReferenceDetail are made under the message of
\* Resolving-References.
C9_MessageBeforeEveryPhaseButReferenceDetail ==
    \A i \in ReviewsInFlight :
        LET p == PhaseOf(reviews[i].pc) IN
        /\ PhasesInOrder(reviews[i].trace)
        /\ statusMessage = PhaseMessages[IF p = 4 THEN 3 ELSE p]

\* a run at its reference abstracts call, all earlier phases visited
C9_Witness ==
    \E i \in ReviewsInFlight :
        /\ reviews[i].pc = "refAbstracts"
        /\ statusMessage = MsgReferences
        /\ Len(reviews[i].topRefs) = TopRefs

\* C10: no run fails at a full-text call; a run past its full-text calls
\* holds what fetchFullText returned for every selected identifier, and a
\* record handed to synthesis has fullText null exactly when fetchFullText
\* returned null for its identifier.
C10_AbsentFullTextNeverFails ==
    \A i \in 1..Len(reviews) :
        LET run == reviews[i] IN
        /\ run.failedAt # "fullText"
        /\ (run.pc \in {"references", "refSummary", "refAbstracts", "synthesis"}
              => DOMAIN run.returned = Range(run.ids))
        /\ (run.pc = "synthesis" =>
              \A n \in 1..Len(run.selectedData) :
                  LET d == run.selectedData[n] IN
                  /\ d.id \in DOMAIN run.returned
                  /\ (d.fullText = JNull) <=> (run.returned[d.id] = JNull))

\* a run at synthesis with two records, one without and one with full text
C10_Witness ==
    \E i \in 1..Len(reviews) :
        /\ reviews[i].pc = "synthesis"
        /\ \E n, m \in 1..Len(reviews[i].selectedData) :
              /\ reviews[i].selectedData[n].fullText = JNull
              /\ reviews[i].selectedData[m].fullText # JNull

----------------------------------------------------------------------------
(* Claims about handleSearch *)

ArticleFields == {"pmid", "title", "authors", "journal", "pubdate", "titleJa"}

\* an article has a non-empty value for a field
FieldFilled(a, f) ==
    /\ f \in DOMAIN a
    /\ CASE f \in {"title", "journal", "pubdate"} -> Truthy(a[f])
         [] f \in {"authors", "titleJa"} -> Len(a[f]) > 0
         [] OTHER -> TRUE

\* C8: no step replaces a non-empty field of an article by an empty or
\* absent value while the article remains in the list.
C8_FieldsNeverCleared ==
    [][\A k \in 1..Len(articles) : \A n \in 1..Len(articles') :
          articles[k].id = articles'[n].id =>
              \A f \in ArticleFields :
                  FieldFilled(articles[k], f) => FieldFilled(articles'[n], f)]_vars

----------------------------------------------------------------------------
(* Claims about the accessors *)

\* C11: fetchSummary, fetchAbstracts and fetchReferences called with an
\* empty identifier list return an empty list or mapping and make no
\* request, whatever the provider would have answered.
C11_EmptyListNoRequest ==
    (/\ unit.fn \in {"fetchSummary", "fetchAbstracts", "fetchReferences"}
     /\ Len(unit.ids) = 0)
        => /\ unit.out.kind = "return"
           /\ DOMAIN unit.out.value = {}
           /\ unit.out.requests = 0

\* fetchReferences of no identifier returned while the provider was down
C11_Witness ==
    /\ unit.fn = "fetchReferences"
    /\ Len(unit.ids) = 0
    /\ unit.resp.kind = "reject"
    /\ unit.out.kind = "return"

\* C12 (as claimed): the list fetchReferences returns has no duplicate and
\* holds at most 3 references for each source identifier, whatever the
\* shape of the link-set response; the claimed bound, 3 per source less the
\* shared references, is no larger.
C12_AtMostThreePerSource ==
    (unit.fn = "fetchReferences" /\ unit.out.kind = "return")
        => /\ \A i, j \in 1..Len(unit.out.value) :
                i # j => unit.out.value[i] # unit.out.value[j]
           /\ Len(unit.out.value) <= RefsPerLinkSetDb * Len(unit.ids)

----------------------------------------------------------------------------
(* Claims about the calls of handleDeepReview *)

FullTextCalls(run) == {n \in 1..Len(run.trace) : run.trace[n] = "fullText"}

\* C14: the fetchFullText calls of a run directly follow its abstract call,
\* one for each selected identifier in order and none twice; a call is made
\* only once all earlier ones have returned, and the reference lookup
\* follows the call for the last identifier.
C14_OneFullTextCallPerIdentifier ==
    \A i \in ReviewsInFlight :
        LET run == reviews[i]
            made == Cardinality(FullTextCalls(run))
        IN  /\ FullTextCalls(run) = 2..(made + 1)
            /\ \A n \in FullTextCalls(run) : run.args[n] = run.ids[n - 1]
            /\ made <= Len(run.ids)
            /\ run.pc = "abstracts" => made = 0
            /\ run.pc = "fullText"
                  => /\ made = run.k
                     /\ DOMAIN run.returned = {run.ids[j] : j \in 1..(made - 1)}
            /\ run.pc \in {"references", "refSummary", "refAbstracts",
                           "synthesis"}
                  => /\ made = Len(run.ids)
                     /\ DOMAIN run.returned = Range(run.ids)
                     /\ run.trace[made + 2] = "references"

\* a run at its reference lookup after two full-text calls, the first of
\* which returned null
C14_Witness ==
    \E i \in ReviewsInFlight :
        /\ reviews[i].pc = "references"
        /\ reviews[i].trace =
              <<"abstracts", "fullText", "fullText", "references">>
        /\ reviews[i].returned[reviews[i].ids[1]] = JNull

\* the position of an identifier in a list of articles
PositionIn(arts, id) == CHOOSE k \in 1..Len(arts) : arts[k].id = id

\* C15 (as claimed): the records a run hands to synthesis are the articles
\* whose identifiers were selected at the click, in the order of the
\* article list of the click; each carries the abstract and the full text
\* returned for its own identifier, and its abstract is not the empty
\* string.
C15_BundleMatchesSelection ==
    \A i \in ReviewsInFlight :
        LET run == reviews[i]
            data == run.selectedData
        IN  run.pc = "synthesis" =>
              /\ {data[n].id : n \in 1..Len(data)} = Range(run.ids)
              /\ \A n, m \in 1..Len(data) :
                    n < m => PositionIn(run.arts, data[n].id)
                                < PositionIn(run.arts, data[m].id)
              /\ \A n \in 1..Len(data) :
                    /\ data[n].id \in DOMAIN run.abstracts
                    /\ data[n].abstract = run.abstracts[data[n].id]
                    /\ Len(data[n].abstract) > 0
                    /\ data[n].fullText = run.returned[data[n].id]

----------------------------------------------------------------------------
(* Claims about the course of a deep review *)

\* a call of a run in flight returns or throws
ReviewStep ==
    \E i \in 1..MaxReviews :
        \/ \E kind \in AbstractKinds : AbstractsSettles(i, kind)
        \/ \E kind \in FullTextKinds : FullTextSettles(i, kind)
        \/ \E kind \in ReferenceKinds : ReferencesSettle(i, kind)
        \/ \E kind \in SummaryKinds : RefSummarySettles(i, kind)
        \/ \E kind \in AbstractKinds : RefAbstractsSettle(i, kind)
        \/ \E kind \in ReviewKinds : SynthesisSettles(i, kind)

\* SpecReview where every network call eventually returns or throws
SpecReviewFair == SpecReview /\ WF_vars(ReviewStep)

\* C16 (as claimed): a run that was started comes to an end; it ends either
\* with SUCCESS and a report or with ERROR and the generic message; while no
\* run is in flight the review state does not change; and a run starts with
\* status LOADING, its own first status message and no report.
C16_TerminatesAndStartsFresh ==
    /\ (reviewStatus = LOADING) ~> (reviewStatus \in {SUCCESS, ERROR})
    /\ [][/\ (ReviewsInFlight # {} /\ ReviewsInFlight' = {})
                => \/ reviewStatus' = SUCCESS
                         /\ reportOutput' \notin {"", ErrorReport}
                   \/ reviewStatus' = ERROR /\ reportOutput' = ErrorReport
          /\ (ReviewsInFlight = {} /\ ReviewsInFlight' = {})
                => UNCHANGED <<reviewStatus, statusMessage, reportOutput>>
          /\ (ReviewsInFlight = {} /\ ReviewsInFlight' # {})
                => /\ reviewStatus' = LOADING
                   /\ statusMessage' = MsgAbstracts
                   /\ reportOutput' = ""]_vars

----------------------------------------------------------------------------
(* Claims about fetchAbstracts and fetchSummary *)

\* the tokens of a string that are not whitespace
NonWs(s) == SelectSeq(s, LAMBDA x : x \notin WS)

\* what the segments of a node say, whitespace apart: for each segment in
\* document order its label in brackets, when it has one, and its text
SegmentsSay(node) ==
    ConcatAll([i \in 1..Len(node.segs) |->
        (IF node.segs[i].label.has /\ Len(node.segs[i].label.v) > 0
           THEN <<"[">> \o NonWs(node.segs[i].label.v) \o <<"]">>
           ELSE <<>>)
        \o NonWs(node.segs[i].text)])

\* C17: for every node of the response its identifier is a key of the
\* mapping fetchAbstracts returns, and the value is a non-empty string
\* without whitespace at either end; for the last node of an identifier it
\* is the sentinel when the node's segments say nothing, and otherwise the
\* labels in brackets and the texts of its segments in document order.
C17_AbstractNeverEmpty ==
    (/\ unit.fn = "fetchAbstracts"
     /\ Len(unit.ids) > 0
     /\ unit.resp.kind = "xml")
        => /\ unit.out.kind = "return"
           /\ \A n \in 1..Len(unit.resp.nodes) :
                LET node == unit.resp.nodes[n]
                    isLast == \A m \in (n + 1)..Len(unit.resp.nodes) :
                                  unit.resp.nodes[m].pmid # node.pmid
                IN  /\ node.pmid \in DOMAIN unit.out.value
                    /\ LET v == unit.out.value[node.pmid] IN
                       /\ Len(v) > 0
                       /\ Head(v) \notin WS
                       /\ Last(v) \notin WS
                       /\ isLast =>
                            IF Len(SegmentsSay(node)) = 0
                              THEN v = NoAbstract
                              ELSE NonWs(v) = SegmentsSay(node)

\* a response with a node of two segments, one labelled, and a node without
\* segments, whose identifier is mapped to the sentinel
C17_Witness ==
    /\ unit.fn = "fetchAbstracts"
    /\ Len(unit.ids) > 0
    /\ unit.resp.kind = "xml"
    /\ \E n, m \in 1..Len(unit.resp.nodes) :
          /\ Len(unit.resp.nodes[n].segs) = 2
          /\ Len(unit.resp.nodes[m].segs) = 0
          /\ unit.resp.nodes[n].pmid # unit.resp.nodes[m].pmid
          /\ unit.out.value[unit.resp.nodes[m].pmid] = NoAbstract
          /\ Head(unit.out.value[unit.resp.nodes[n].pmid]) = "["

\* the fields of a record fetchSummary builds
SummaryFields == {"id", "pmid", "title", "authors", "journal", "pubdate"}

----------------------------------------------------------------------------
(* Claims about the title translation of handleSearch *)

\* C18: when the translation's text does not parse,
\* callGeminiTitleTranslation returns the empty mapping, and the step of
\* the search that receives it leaves searchStatus as it is (SUCCESS, as
\* set when the articles were listed, unless a later search has changed
\* it), keeps every listed article with its fields, the Japanese title
\* being empty, clears translatingTitles and ends the search.
C18_UnparsableTranslationTolerated ==
    [][\A i \in 1..MaxSearches :
          TranslationSettles(i, "unparsable") =>
              /\ callGeminiTitleTranslation(searches[i].arg,
                     TranslationResponse("unparsable", searches[i].arg))
                   = Ret(EmptyMap, 1)
              /\ searchStatus' = searchStatus
              /\ translatingTitles' = FALSE
              /\ Len(searches') = Len(searches) - 1
              /\ Len(articles') = Len(articles)
              /\ \A k \in 1..Len(articles) :
                    /\ articles'[k].titleJa = <<>>
                    /\ \A f \in DOMAIN articles[k] \ {"titleJa"} :
                          articles'[k][f] = articles[k][f]]_vars

\* a search has ended with its articles listed, none with a Japanese title
C18_Witness ==
    /\ searches = <<>>
    /\ searchStatus = SUCCESS
    /\ ~translatingTitles
    /\ Len(articles) = 2
    /\ \A k \in 1..Len(articles) :
          "titleJa" \in DOMAIN articles[k] /\ articles[k].titleJa = <<>>

----------------------------------------------------------------------------
(* Claims about the guards of handleSearch and handleDeepReview *)

\* C20: while no term is selected handleSearch does nothing, and while no
\* article is selected handleDeepReview does nothing; a search is started
\* only with a term selected and a review only with an article selected,
\* whose identifiers the run holds.
C20_NoCallOnEmptySelection ==
    [][/\ selectedTerms = {} => ~ENABLED SearchClick
       /\ Len(selectedArticleIds) = 0 => ~ENABLED ReviewClick
       /\ Len(searches') > Len(searches) => selectedTerms # {}
       /\ \A i \in ReviewsInFlight' :
             (i \notin ReviewsInFlight \/ reviews'[i] # reviews[i])
                => /\ Len(reviews'[i].ids) > 0
                   /\ reviews'[i].pc = "abstracts" =>
                         reviews'[i].ids = selectedArticleIds]_vars

\* after an analysis every term has been toggled off, and the articles of
\* a search are listed with none selected, while no search or review runs
C20_Witness ==
    /\ Len(meshTerms) > 0
    /\ selectedTerms = {}
    /\ searchStatus = SUCCESS
    /\ Len(articles) > 0
    /\ Len(selectedArticleIds) = 0
    /\ reviewStatus = ERROR

----------------------------------------------------------------------------
(* Claims about toggleTerm and toggleArticle *)

\* the state a toggle of a term does not touch
C21_BesideTerms ==
    <<fw, unit, meshTerms, analyzeStatus, articles, searchStatus,
      selectedArticleIds, translatingTitles, reviewStatus, statusMessage,
      reportOutput, searches, reviews>>

\* the state a toggle of an article does not touch
C21_BesideArticles ==
    <<fw, unit, meshTerms, selectedTerms, analyzeStatus, articles,
      searchStatus, translatingTitles, reviewStatus, statusMessage,
      reportOutput, searches, reviews>>

\* C21: toggleTerm and toggleArticle are pure set updates. A toggle flips
\* the membership of the toggled element, leaves the membership of every
\* other element and the rest of the state as they were and keeps the set
\* free of duplicates, and the same toggle made again on the result gives
\* back the original set.
C21_TogglesArePureSetUpdates ==
    [][/\ \A term \in Range(Terms) :
             toggleTerm(term) =>
                /\ (term \in selectedTerms') # (term \in selectedTerms)
                /\ \A t \in Range(Terms) \ {term} :
                      (t \in selectedTerms') = (t \in selectedTerms)
                /\ ToggledTerms(selectedTerms', term) = selectedTerms
                /\ UNCHANGED C21_BesideTerms
       /\ \A id \in ArticleIds :
             toggleArticle(id) =>
                /\ (id \in Range(selectedArticleIds'))
                      # (id \in Range(selectedArticleIds))
                /\ \A a \in ArticleIds \ {id} :
                      (a \in Range(selectedArticleIds'))
                         = (a \in Range(selectedArticleIds))
                /\ Cardinality(Range(selectedArticleIds'))
                      = Len(selectedArticleIds')
                /\ Range(ToggledArticles(selectedArticleIds', id))
                      = Range(selectedArticleIds)
                /\ UNCHANGED C21_BesideArticles]_vars

\* toggles have removed a preselected term and selected both listed
\* articles, the second one first
C21_Witness ==
    /\ meshTerms = Terms
    /\ selectedTerms = {"t2"}
    /\ Len(articles) = 2
    /\ selectedArticleIds = <<"102", "101">>

----------------------------------------------------------------------------
(* Claims about the selection and the listed articles *)

\* the identifiers of the listed articles
ListedIds == {articles[k].id : k \in 1..Len(articles)}

\* C22: in every reachable state the selected article identifiers are
\* identifiers of listed articles.
C22_SelectionIsListed == Range(selectedArticleIds) \subseteq ListedIds

----------------------------------------------------------------------------
(* Claims about the translation indicator of handleSearch *)

\* the awaited call of the i-th suspended search returns or throws
SearchStep(i) ==
    \/ \E resp \in SearchResponses : SearchSettles(i, resp)
    \/ \E kind \in SummaryKinds : SummarySettles(i, kind)
    \/ \E kind \in TranslationKinds : TranslationSettles(i, kind)

\* SpecSearch where every network call eventually returns or throws
SpecSearchFair ==
    SpecSearch /\ \A i \in 1..MaxSearches : WF_vars(SearchStep(i))

\* the identifiers of a list of articles, in order
IdsOf(list) == [k \in 1..Len(list) |-> list[k].id]

\* articles are listed and a search awaits the translation of titles with
\* their identifiers
TranslatingListed ==
    /\ articles # <<>>
    /\ \E j \in 1..Len(searches) :
          /\ searches[j].pc = "translate"
          /\ IdsOf(searches[j].arg) = IdsOf(articles)

\* C23: translatingTitles tracks the title translation in flight. It is
\* set when the translation of the listed articles starts, and the only
\* steps that clear it are the ends of translations, so it is true while
\* that translation is in flight unless the translation of another list,
\* of an earlier search, ends meanwhile and clears it: no such step leaves
\* it false. And whenever it is true it becomes false again later, also
\* when the translation call fails.
C23_FlagTracksTranslation ==
    /\ [][\A i \in 1..Len(searches) :
             (/\ \E kind \in TranslationKinds : TranslationSettles(i, kind)
              /\ IdsOf(searches[i].arg) # IdsOf(articles)
              /\ TranslatingListed')
                => translatingTitles']_vars
    /\ translatingTitles ~> ~translatingTitles

----------------------------------------------------------------------------
(* Claims about the status of a search *)

\* C24: once a search has reached SUCCESS with its articles listed,
\* searchStatus stays SUCCESS until a search is started again; a failure
\* of the title translation that follows does not make it ERROR.
C24_SuccessStaysSuccess ==
    [][(searchStatus = SUCCESS /\ articles # <<>>)
          => \/ searchStatus' = SUCCESS
             \/ Len(searches') > Len(searches) /\ searchStatus' = LOADING]_vars

====
